---- MODULE Spec2Model ----
(***************************************************************************)
(* Request-level model of the RAG API of src/src/main.py: the              *)
(* add_request_id middleware and the six route handlers, run one request   *)
(* at a time against the three module-level collaborators (vector_db,      *)
(* rag_system, crawler).  The collaborators' own modules (.database,       *)
(* .rag, .crawler) are not part of the sources; their behaviour is the     *)
(* contract of spec.md sections 2 and 3.                                   *)
(*                                                                         *)
(* main.py line 17 uses the name `logging`, which main.py never imports;   *)
(* the model describes the handlers as they behave once registered on      *)
(* `app`, with the module globals exactly those bound by lines 1-33.       *)
(***************************************************************************)
EXTENDS Integers, Sequences, FiniteSets, TLC

(* ------------------------------ bounds --------------------------------- *)
MaxDocs == 3
MaxQueries == 2
MaxRequests == 3

Docs == 1..MaxDocs
Queries == 1..MaxQueries

(* ------------------------- program constants --------------------------- *)
DefaultNumResults == 5
ListLimit == 100
NumResultsValues == {1, DefaultNumResults}

NoId == 0

(* names bound in main.py's module namespace by its imports and its        *)
(* module-level assignments                                                *)
ModuleGlobals ==
  {"FastAPI", "HTTPException", "Request", "CORSMiddleware", "JSONResponse",
   "BaseModel", "List", "Optional", "os", "load_dotenv", "traceback", "uuid",
   "logger", "WebCrawler", "VectorDatabase", "RAGSystem",
   "app", "vector_db", "rag_system", "crawler"}

NameErrorMsg(name) == <<"name '", name, "' is not defined">>

(* the object utils/logger.py exports is a plain logging.Logger: the       *)
(* methods setup_logger leaves on it                                       *)
LoggerAttributes ==
  {"debug", "info", "warning", "error", "exception", "critical", "log",
   "setLevel", "addHandler", "removeHandler", "handlers", "name", "level"}

LoggerAttributeErrorMsg(attr) ==
  <<"'Logger' object has no attribute '", attr, "'">>

StateAttributeErrorMsg(attr) ==
  <<"'State' object has no attribute '", attr, "'">>

(* the values os.getenv("DEBUG") can return: <<>> is None (unset)          *)
DebugValues == {<<>>, <<"true">>, <<"True">>, <<"false">>}

(* --------------------- collaborators (spec.md 2, 3) -------------------- *)
Min(a, b) == IF a < b THEN a ELSE b

Relevant(q) == {d \in Docs : d % MaxQueries = q % MaxQueries}

Hits(st, q) == st \cap Relevant(q)

(* vector_db.search(query, limit): up to `limit` stored documents matching *)
VectorDbSearch(st, q, limit) ==
  {r \in SUBSET Hits(st, q) :
      Cardinality(r) = Min(limit, Cardinality(Hits(st, q)))}

(* crawler.search_and_crawl(query, num_results): up to num_results pages   *)
CrawlResults(q, n) == {r \in SUBSET Docs : Cardinality(r) <= n}

(* vector_db.add_documents(documents) *)
AddDocuments(st, docs) == st \cup docs

(* vector_db.clear_documents() *)
ClearStore(st) == {}

(* vector_db.get_all_documents(limit): up to `limit` stored documents; an  *)
(* empty store is reported as an empty list or as None                     *)
GetAllDocuments(st, limit) ==
  IF st = {}
  THEN {[kind |-> "list", docs |-> {}], [kind |-> "null", docs |-> {}]}
  ELSE {[kind |-> "list", docs |-> r] :
          r \in {x \in SUBSET st : Cardinality(x) = Min(limit, Cardinality(st))}}

(* rag_system.generate_response_with_sources(query): re-retrieves context  *)
GenerateSources(st, q) == Hits(st, q)

CollaboratorErrorMsg(call) == <<call, " failed">>

SearchFaults == {"none", "vector_db.search", "crawler.search_and_crawl",
                 "vector_db.add_documents",
                 "rag_system.generate_response_with_sources"}

(* ------------------------------ responses ------------------------------ *)
(* a JSON response: its status, the keys of its body and their values;     *)
(* a key that is absent keeps the neutral value                            *)
NoBody ==
  [keys |-> {}, detail |-> <<>>, request_id |-> NoId, from_cache |-> "-",
   sources |-> {}, docsKind |-> "-", documents |-> {}, message |-> "",
   status |-> "", database |-> "", openai_api |-> "", error |-> <<>>]

Returned(body, st, calls, lg, hrid) ==
  [kind |-> "return", code |-> 200, body |-> body, msg |-> <<>>,
   store |-> st, calls |-> calls, logs |-> lg, rid |-> hrid]

HttpException(code, detail, st, calls, lg, hrid) ==
  [kind |-> "http_exception", code |-> code,
   body |-> [NoBody EXCEPT !.keys = {"detail"}, !.detail = detail],
   msg |-> detail, store |-> st, calls |-> calls, logs |-> lg, rid |-> hrid]

Raised(msg, st, calls, lg, hrid) ==
  [kind |-> "exception", code |-> 0, body |-> NoBody, msg |-> msg,
   store |-> st, calls |-> calls, logs |-> lg, rid |-> hrid]

LogEntry(level, text, rid) == [level |-> level, msg |-> text, request_id |-> rid]

(* ------------------------------ middleware ----------------------------- *)
(* the attributes add_request_id leaves on request.state before it calls   *)
(* call_next: request_id is a local of the middleware, never stored        *)
RequestState(rid) == [a \in {} |-> rid]

(* add_request_id around one handler outcome: a returned body is passed    *)
(* through, an HTTPException has already been rendered by the framework as *)
(* {detail} inside call_next, any other exception is caught at line 57     *)
AddRequestIdResponse(rid, out) ==
  IF out.kind = "exception"
  THEN [code |-> 500,
        body |-> [NoBody EXCEPT !.keys = {"detail", "request_id"},
                                !.detail = out.msg, !.request_id = rid]]
  ELSE [code |-> out.code, body |-> out.body]

AddRequestIdLogs(rid, out) ==
  <<LogEntry("INFO", "Incoming request", rid)>> \o out.logs \o
  (IF out.kind = "exception"
   THEN <<LogEntry("ERROR", "Request failed", rid)>> ELSE <<>>)

(* ------------------------------ POST /search --------------------------- *)
SearchCaught(msg, st, cs, lg, rid) ==
  HttpException(500, <<"Error processing request: ">> \o msg, st, cs,
                lg \o <<LogEntry("ERROR", "Error processing request", rid)>>, rid)

SearchGenerate(st, q, fromCache, fault, cs, lg, rid) ==
  LET cs2 == cs \o <<"rag_system.generate_response_with_sources">>
  IN IF fault = "rag_system.generate_response_with_sources"
     THEN SearchCaught(CollaboratorErrorMsg(fault), st, cs2, lg, rid)
     ELSE Returned([NoBody EXCEPT !.keys = {"answer", "sources", "from_cache"},
                                  !.sources = GenerateSources(st, q),
                                  !.from_cache = fromCache],
                   st, cs2,
                   IF fromCache = "true" THEN lg
                   ELSE lg \o <<LogEntry("INFO", "Successfully generated response", rid)>>,
                   rid)

SearchCrawl(st, q, crawled, fault, cs, lg, rid) ==
  LET lg2 == lg \o <<LogEntry("INFO", "Crawling web for documents", rid)>>
      cs2 == cs \o <<"crawler.search_and_crawl">>
      cs3 == cs2 \o <<"vector_db.add_documents">>
  IN IF fault = "crawler.search_and_crawl"
     THEN SearchCaught(CollaboratorErrorMsg(fault), st, cs2, lg2, rid)
     ELSE IF crawled = {}
     THEN SearchCaught(<<"404: No relevant documents found">>, st, cs2,
                       lg2 \o <<LogEntry("WARNING", "No documents found", rid)>>, rid)
     ELSE IF fault = "vector_db.add_documents"
     THEN SearchCaught(CollaboratorErrorMsg(fault), st, cs3, lg2, rid)
     ELSE SearchGenerate(AddDocuments(st, crawled), q, "false", fault, cs3, lg2, rid)

search_and_answer(state, st, q, found, crawled, fault) ==
  IF "request_id" \notin DOMAIN state
  THEN Raised(StateAttributeErrorMsg("request_id"), st, <<>>, <<>>, NoId)
  ELSE LET rid == state["request_id"]
           lg == <<LogEntry("INFO", "Processing search request", rid)>>
           cs == <<"vector_db.search">>
       IN IF fault = "vector_db.search"
          THEN SearchCaught(CollaboratorErrorMsg(fault), st, cs, lg, rid)
          ELSE IF found # {}
          THEN SearchGenerate(st, q, "true", fault, cs,
                              lg \o <<LogEntry("INFO", "Found documents in cache", rid)>>,
                              rid)
          ELSE SearchCrawl(st, q, crawled, fault, cs, lg, rid)

(* ------------------------------ /documents ----------------------------- *)
(* a listing that consumes what it lists *)
get_stored_documents_draining(st, listed, fault) ==
  IF fault
  THEN HttpException(500, CollaboratorErrorMsg("vector_db.get_all_documents"),
                     st, <<"vector_db.get_all_documents">>, <<>>, NoId)
  ELSE Returned([NoBody EXCEPT !.keys = {"documents"},
                               !.docsKind = "list",
                               !.documents = IF listed.kind = "null" \/ listed.docs = {}
                                             THEN {} ELSE listed.docs],
                st \ listed.docs, <<"vector_db.get_all_documents">>, <<>>, NoId)

get_stored_documents(st, listed, fault) ==
  IF fault
  THEN HttpException(500, CollaboratorErrorMsg("vector_db.get_all_documents"),
                     st, <<"vector_db.get_all_documents">>, <<>>, NoId)
  ELSE Returned([NoBody EXCEPT !.keys = {"documents"},
                               !.docsKind = "list",
                               !.documents = IF listed.kind = "null" \/ listed.docs = {}
                                             THEN {} ELSE listed.docs],
                st, <<"vector_db.get_all_documents">>, <<>>, NoId)

(* a clear that reports success without calling vector_db.clear_documents *)
clear_documents_noop(st, fault) ==
  IF fault
  THEN HttpException(500, CollaboratorErrorMsg("vector_db.clear_documents"),
                     st, <<"vector_db.clear_documents">>, <<>>, NoId)
  ELSE Returned([NoBody EXCEPT !.keys = {"message"},
                               !.message = "All documents cleared successfully"],
                st, <<>>, <<>>, NoId)

clear_documents(st, fault) ==
  IF fault
  THEN HttpException(500, CollaboratorErrorMsg("vector_db.clear_documents"),
                     st, <<"vector_db.clear_documents">>, <<>>, NoId)
  ELSE Returned([NoBody EXCEPT !.keys = {"message"},
                               !.message = "All documents cleared successfully"],
                ClearStore(st), <<"vector_db.clear_documents">>, <<>>, NoId)

(* ------------------------------ GET / ---------------------------------- *)
root(st) ==
  Returned([NoBody EXCEPT !.keys = {"message", "version", "endpoints"},
                          !.message = "Welcome to RAG API"],
           st, <<>>, <<>>, NoId)

(* ------------------------------ GET /debug/logs ------------------------ *)
get_recent_logs(st, dbg) ==
  IF dbg = <<"true">>
  THEN IF "get_recent_logs" \in LoggerAttributes
       THEN Returned([NoBody EXCEPT !.keys = {"logs"}], st, <<>>, <<>>, NoId)
       ELSE Raised(LoggerAttributeErrorMsg("get_recent_logs"), st, <<>>, <<>>, NoId)
  ELSE Returned([NoBody EXCEPT !.keys = {"message"},
                               !.message = "Debug mode not enabled"],
                st, <<>>, <<>>, NoId)

(* ------------------------------ GET /health ---------------------------- *)
HealthFaults == {"none", "vector_db.check_connection", "rag_system.check_api"}

(* the except branch of health_check: it logs, then builds a body whose    *)
(* timestamp again needs the global name datetime                          *)
HealthExcept(msg, st, cs) ==
  LET lg == <<LogEntry("ERROR", "Health check failed", NoId)>>
  IN IF "datetime" \in ModuleGlobals
     THEN Returned([NoBody EXCEPT !.keys = {"status", "error", "timestamp"},
                                  !.status = "unhealthy", !.error = msg],
                   st, cs, lg, NoId)
     ELSE Raised(NameErrorMsg("datetime"), st, cs, lg, NoId)

health_check(st, db_status, openai_status, fault) ==
  LET cs1 == <<"vector_db.check_connection">>
      cs2 == cs1 \o <<"rag_system.check_api">>
  IN IF fault = "vector_db.check_connection"
     THEN HealthExcept(CollaboratorErrorMsg(fault), st, cs1)
     ELSE IF fault = "rag_system.check_api"
     THEN HealthExcept(CollaboratorErrorMsg(fault), st, cs2)
     ELSE IF "datetime" \in ModuleGlobals
     THEN Returned([NoBody EXCEPT
                      !.keys = {"status", "database", "openai_api", "timestamp"},
                      !.status = IF db_status /\ openai_status
                                 THEN "healthy" ELSE "unhealthy",
                      !.database = IF db_status THEN "connected" ELSE "disconnected",
                      !.openai_api = IF openai_status THEN "connected"
                                     ELSE "disconnected"],
                   st, cs2, <<>>, NoId)
     ELSE HealthExcept(NameErrorMsg("datetime"), st, cs2)

(* ------------------------------- state --------------------------------- *)
(* store    the documents held by vector_db (main.py line 31)               *)
(* debug    the DEBUG environment variable read at line 196                 *)
(* nextId   the next value of uuid.uuid4() (line 46)                        *)
(* cleared  history: a DELETE /documents succeeded and no POST /search      *)
(*          has been served since                                           *)
(* last     the request served last: its inputs, the id the middleware      *)
(*          gave it, the id the handler obtained, the store it found        *)
(* resp     the HTTP response to it                                         *)
(* calls    the collaborator calls its handler made, in order               *)
(* logs     the log entries written while it was served                     *)
VARIABLES store, debug, nextId, cleared, last, resp, calls, logs

vars == <<store, debug, nextId, cleared, last, resp, calls, logs>>

NoRequest ==
  [op |-> "none", request_id |-> NoId, handler_id |-> NoId, query |-> 0,
   num_results |-> 0, crawled |-> {}, fault |-> "none", db_status |-> FALSE,
   openai_status |-> FALSE, storeBefore |-> {}, outcome |-> "none"]

Init ==
  /\ store \in SUBSET Docs
  /\ debug \in DebugValues
  /\ nextId = 1
  /\ cleared = FALSE
  /\ last = NoRequest
  /\ resp = [code |-> 0, body |-> NoBody]
  /\ calls = <<>>
  /\ logs = <<>>

(* one request through add_request_id: uuid4() is the next fresh id *)
Serve(req, out, clearedAfter) ==
  /\ nextId <= MaxRequests
  /\ nextId' = nextId + 1
  /\ store' = out.store
  /\ cleared' = clearedAfter
  /\ last' = [req EXCEPT !.request_id = nextId, !.handler_id = out.rid,
                         !.storeBefore = store, !.outcome = out.kind]
  /\ resp' = AddRequestIdResponse(nextId, out)
  /\ calls' = out.calls
  /\ logs' = AddRequestIdLogs(nextId, out)
  /\ UNCHANGED debug

PostSearch ==
  \E q \in Queries, n \in NumResultsValues, fault \in SearchFaults :
    \E found \in VectorDbSearch(store, q, n), crawled \in CrawlResults(q, n) :
      Serve([NoRequest EXCEPT !.op = "search", !.query = q, !.num_results = n,
                              !.crawled = crawled, !.fault = fault],
            search_and_answer(RequestState(nextId), store, q, found, crawled, fault),
            FALSE)

GetDocuments ==
  \E fault \in BOOLEAN :
    \E listed \in GetAllDocuments(store, ListLimit) :
      Serve([NoRequest EXCEPT !.op = "get_documents",
                              !.fault = IF fault THEN "vector_db.get_all_documents"
                                        ELSE "none"],
            get_stored_documents(store, listed, fault), cleared)

DeleteDocuments ==
  \E fault \in BOOLEAN :
    Serve([NoRequest EXCEPT !.op = "clear_documents",
                            !.fault = IF fault THEN "vector_db.clear_documents"
                                      ELSE "none"],
          clear_documents(store, fault), IF fault THEN cleared ELSE TRUE)

GetRoot ==
  Serve([NoRequest EXCEPT !.op = "root"], root(store), cleared)

GetDebugLogs ==
  Serve([NoRequest EXCEPT !.op = "debug_logs"], get_recent_logs(store, debug), cleared)

GetHealth ==
  \E db \in BOOLEAN, api \in BOOLEAN, fault \in HealthFaults :
    Serve([NoRequest EXCEPT !.op = "health", !.db_status = db,
                            !.openai_status = api, !.fault = fault],
          health_check(store, db, api, fault), cleared)

Next ==
  \/ PostSearch
  \/ GetDocuments
  \/ DeleteDocuments
  \/ GetRoot
  \/ GetDebugLogs
  \/ GetHealth

Spec == Init /\ [][Next]_vars

TypeOK ==
  /\ store \subseteq Docs
  /\ nextId \in 1..(MaxRequests + 1)
  /\ cleared \in BOOLEAN

(* ------------------------- vocabulary of the claims -------------------- *)
IsSearch == last.op = "search"

(* what vector_db.search holds for the request's query in the store the    *)
(* request found                                                           *)
LookupHit == Hits(last.storeBefore, last.query) # {}

Called(c) == \E i \in 1..Len(calls) : calls[i] = c

Carries(detail, msg) ==
  \E i \in 0..Len(detail) : SubSeq(detail, i + 1, Len(detail)) = msg

(* the collaborator call that is set to raise lies on the request's path   *)
FaultOnPath ==
  \/ last.fault = "vector_db.search"
  \/ last.fault = "crawler.search_and_crawl" /\ ~LookupHit
  \/ last.fault = "vector_db.add_documents" /\ ~LookupHit /\ last.crawled # {}
  \/ last.fault = "rag_system.generate_response_with_sources"
       /\ (LookupHit \/ last.crawled # {})

(* C1: a POST /search whose lookup finds a stored document answers 200     *)
(* with from_cache = true and calls neither the crawler nor add_documents. *)
C1_CacheHit ==
  (IsSearch /\ last.fault = "none" /\ LookupHit) =>
     /\ resp.code = 200
     /\ resp.body.from_cache = "true"
     /\ ~Called("crawler.search_and_crawl")
     /\ ~Called("vector_db.add_documents")

(* C2: a POST /search that misses the cache and crawls a non-empty result  *)
(* persists the crawled documents before generating, answers 200 with      *)
(* from_cache = false, and leaves the documents in the store for a later   *)
(* GET /documents.                                                         *)
C2_MissCrawlPersist ==
  (IsSearch /\ last.fault = "none" /\ ~LookupHit /\ last.crawled # {}) =>
     /\ resp.code = 200
     /\ resp.body.from_cache = "false"
     /\ last.crawled \subseteq store
     /\ calls = <<"vector_db.search", "crawler.search_and_crawl",
                  "vector_db.add_documents",
                  "rag_system.generate_response_with_sources">>

(* C3: a POST /search that misses the cache and crawls nothing answers 404 *)
(* "No relevant documents found" and adds nothing to the store.            *)
C3_EmptyCrawl404 ==
  (IsSearch /\ last.fault = "none" /\ ~LookupHit /\ last.crawled = {}) =>
     /\ resp.code = 404
     /\ resp.body.detail = <<"No relevant documents found">>
     /\ store = last.storeBefore

(* C4: when a collaborator call of POST /search raises, no later           *)
(* collaborator is called, the call is not retried, and the response is    *)
(* 500 with a body holding detail (carrying the exception's message) and   *)
(* request_id.                                                             *)
C4_CollaboratorFailure ==
  (IsSearch /\ FaultOnPath) =>
     /\ resp.code = 500
     /\ {"detail", "request_id"} \subseteq resp.body.keys
     /\ Carries(resp.body.detail, CollaboratorErrorMsg(last.fault))
     /\ resp.body.request_id = last.request_id
     /\ calls # <<>>
     /\ calls[Len(calls)] = last.fault
     /\ Cardinality({i \in 1..Len(calls) : calls[i] = last.fault}) = 1

C6_Health ==
  (last.op = "health" /\ last.fault = "none") =>
     /\ resp.code = 200
     /\ resp.body.keys = {"status", "database", "openai_api", "timestamp"}
     /\ (resp.body.database = "connected") = last.db_status
     /\ (resp.body.openai_api = "connected") = last.openai_status
     /\ (resp.body.status = "healthy") = (last.db_status /\ last.openai_status)
     /\ resp.body.status \in {"healthy", "unhealthy"}

(* C7: GET /debug/logs returns the recent logs when DEBUG is exactly       *)
(* "true" and the "Debug mode not enabled" message for every other value.  *)
C7_DebugLogs ==
  (last.op = "debug_logs") =>
     IF debug = <<"true">>
     THEN resp.code = 200 /\ resp.body.keys = {"logs"}
     ELSE /\ resp.code = 200
          /\ resp.body.keys = {"message"}
          /\ resp.body.message = "Debug mode not enabled"

(* C8: stored documents are append-only until an explicit clear: only      *)
(* DELETE /documents removes a stored document, only a POST /search that   *)
(* missed the cache and crawled a non-empty result adds documents, and     *)
(* GET /documents, GET /health, GET /, GET /debug/logs and a cache-hit     *)
(* POST /search leave the store as it was.                                 *)
C8_AppendOnlyUntilClear ==
  last.op # "none" =>
  /\ ~(last.storeBefore \subseteq store) => last.op = "clear_documents"
  /\ ~(store \subseteq last.storeBefore) =>
        /\ IsSearch /\ ~LookupHit /\ last.crawled # {}
        /\ store = last.storeBefore \cup last.crawled
  /\ last.op \in {"get_documents", "health", "root", "debug_logs"}
        => store = last.storeBefore
  /\ (IsSearch /\ LookupHit) => store = last.storeBefore

C8_Witness ==
  /\ last.op = "clear_documents"
  /\ last.storeBefore # {}
  /\ store = {}

(* C9: the request id the POST /search handler logs with is the id the     *)
(* middleware assigned to the request, and the handler always reaches the  *)
(* vector-store lookup.                                                    *)
C9_RequestIdCorrelation ==
  IsSearch =>
     /\ last.handler_id = last.request_id
     /\ \A i \in 1..Len(logs) : logs[i].request_id = last.request_id
     /\ calls # <<>>
     /\ calls[1] = "vector_db.search"

(* C10: when POST /search misses the cache, crawls a non-empty result,     *)
(* persists it and answer generation raises, the response is 500 and the   *)
(* crawled documents stay stored: the store differs from the one before.   *)
C10_NoRollback ==
  (IsSearch /\ last.fault = "rag_system.generate_response_with_sources"
            /\ ~LookupHit /\ last.crawled # {}) =>
     /\ resp.code = 500
     /\ last.crawled \subseteq store
     /\ store # last.storeBefore

====
